---------------------------- MODULE Spec2Model ----------------------------
(***************************************************************************)
(* 256-point radix-2 DIT FFT core (src/src/fft.h, src/src/fft.cpp) and the *)
(* stimulus of its testbench (src/src/fft_tb.cpp).                         *)
(*                                                                         *)
(* fixed_t (ap_fixed<32,16>, AP_TRN, AP_WRAP) is modelled by its raw       *)
(* 32-bit two's-complement pattern read as a signed integer in             *)
(* -2^31 .. 2^31-1.  data_t (ap_uint<64>) is modelled by its four 16-bit   *)
(* limbs, most significant first: <<[63:48], [47:32], [31:16], [15:0]>>.   *)
(* All arithmetic is done on 16-bit halves so that no intermediate value   *)
(* leaves the 32-bit signed range.                                         *)
(***************************************************************************)
EXTENDS Integers, Sequences, FiniteSets, TLC

FFT_SIZE == 256

LOG2_FFT_SIZE == 8

\* Number of frames the host queues, and of fft invocations it makes.
MaxFrames == 2

\* Number of constant-valued frames of ConstList offered to a single transform.
NumConsts == 6

\* Number of raw patterns of PatternList offered to pack_data / unpack_data.
NumPatterns == 7

-----------------------------------------------------------------------------
(* fixed_t arithmetic: ap_fixed<32,16> with truncation and wrap            *)

Half == 2^16

\* Sign of a 16-bit field that holds bits [31:16] of a 32-bit pattern.
S16(h) == IF h >= 2^15 THEN h - Half ELSE h

Hi(a) == a \div Half

Lo(a) == a % Half

\* The fixed_t whose raw pattern has high half hi (any integer, wrapped to
\* 16 bits) and low half lo (0 .. 2^16-1).
MkFixed(hi, lo) == S16(hi % Half) * Half + lo

\* operator+ followed by the assignment to fixed_t: 33-bit sum, wrapped.
FixAdd(a, b) ==
    LET lo == Lo(a) + Lo(b)
    IN  MkFixed(Hi(a) + Hi(b) + (lo \div Half), lo % Half)

\* operator- followed by the assignment to fixed_t: 33-bit difference, wrapped.
FixSub(a, b) ==
    LET lo == Lo(a) - Lo(b)
    IN  MkFixed(Hi(a) - Hi(b) + (lo \div Half), lo % Half)

\* (fixed_t)(a * b): the exact 64-bit product ap_fixed<64,32>, its 16 low
\* fraction bits dropped (AP_TRN, i.e. floor), its upper bits wrapped
\* (AP_WRAP).  With a = ah*2^16 + al and b = bh*2^16 + bl,
\*   floor(a*b / 2^16) = ah*bh*2^16 + ah*bl + al*bh + floor(al*bl / 2^16).
FixMul(a, b) ==
    LET ah == Hi(a)
        al == Lo(a)
        bh == Hi(b)
        bl == Lo(b)
        a1 == al \div 256
        a0 == al % 256
        low == (a1 * bl + ((a0 * bl) \div 256)) \div 256
    IN  FixAdd(FixAdd(MkFixed(ah * bh, 0), ah * bl), FixAdd(al * bh, low))

\* ap_fixed<32,16>(int n): the integer n as a fixed_t.
FixFromInt(n) == MkFixed(n, 0)

-----------------------------------------------------------------------------
(* fft.h: packing of a complex sample into a 64-bit word                   *)

\* A pack_data that stores the two halves the wrong way round.
pack_data_swapped(real_val, imag_val) ==
    << Hi(imag_val) % Half, Lo(imag_val), Hi(real_val) % Half, Lo(real_val) >>

pack_data(real_val, imag_val) ==
    << Hi(real_val) % Half, Lo(real_val), Hi(imag_val) % Half, Lo(imag_val) >>

unpack_data(packed) ==
    [ real_val |-> MkFixed(packed[1], packed[2]),
      imag_val |-> MkFixed(packed[3], packed[4]) ]

-----------------------------------------------------------------------------
(* fft.cpp: twiddle ROM.  Each entry is the raw pattern of the fixed_t     *)
(* built from the decimal literal of the source: floor(literal * 2^16).    *)
(* Entry k of the source is element k+1 of the tuple.                      *)

TW_REAL ==
    << 65536, 65516, 65457, 65358, 65220, 65043, 64826, 64571,
       64276, 63943, 63571, 63162, 62714, 62228, 61705, 61144,
       60547, 59913, 59243, 58538, 57797, 57022, 56212, 55368,
       54491, 53581, 52639, 51665, 50660, 49624, 48558, 47464,
       46340, 45189, 44011, 42806, 41575, 40319, 39039, 37736,
       36409, 35061, 33692, 32302, 30893, 29465, 28020, 26557,
       25079, 23586, 22078, 20557, 19024, 17479, 15923, 14359,
       12785, 11204, 9616, 8022, 6423, 4821, 3215, 1608,
       0, -1609, -3216, -4822, -6424, -8023, -9617, -11205,
       -12786, -14360, -15924, -17480, -19025, -20558, -22079, -23587,
       -25080, -26558, -28021, -29466, -30894, -32303, -33693, -35062,
       -36410, -37737, -39040, -40320, -41576, -42807, -44012, -45190,
       -46341, -47465, -48559, -49625, -50661, -51666, -52640, -53582,
       -54492, -55369, -56213, -57023, -57798, -58539, -59244, -59914,
       -60548, -61145, -61706, -62229, -62715, -63163, -63572, -63944,
       -64277, -64572, -64827, -65044, -65221, -65359, -65458, -65517 >>

TW_IMAG ==
    << 0, -1609, -3216, -4822, -6424, -8023, -9617, -11205,
       -12786, -14360, -15924, -17480, -19025, -20558, -22079, -23587,
       -25080, -26558, -28021, -29466, -30894, -32303, -33693, -35062,
       -36410, -37737, -39040, -40320, -41576, -42807, -44012, -45190,
       -46341, -47465, -48559, -49625, -50661, -51666, -52640, -53582,
       -54492, -55369, -56213, -57023, -57798, -58539, -59244, -59914,
       -60548, -61145, -61706, -62229, -62715, -63163, -63572, -63944,
       -64277, -64572, -64827, -65044, -65221, -65359, -65458, -65517,
       -65536, -65517, -65458, -65359, -65221, -65044, -64827, -64572,
       -64277, -63944, -63572, -63163, -62715, -62229, -61706, -61145,
       -60548, -59914, -59244, -58539, -57798, -57023, -56213, -55369,
       -54492, -53582, -52640, -51666, -50661, -49625, -48559, -47465,
       -46341, -45190, -44012, -42807, -41576, -40320, -39040, -37737,
       -36410, -35062, -33693, -32303, -30894, -29466, -28021, -26558,
       -25080, -23587, -22079, -20558, -19025, -17480, -15924, -14360,
       -12786, -11205, -9617, -8023, -6424, -4822, -3216, -1609 >>

-----------------------------------------------------------------------------
(* fft.cpp: index computations                                             *)

Bit(x, n) == (x \div (2^n)) % 2

RECURSIVE RevLoop(_, _, _)
\* The loop of bit_reverse_idx with the target bit taken as B-i, B given.
RevLoop(idx, i, B) ==
    IF i = LOG2_FFT_SIZE THEN 0
    ELSE (IF B - i >= 0 THEN Bit(idx, i) * 2^(B - i) ELSE 0) + RevLoop(idx, i + 1, B)

\* A bit_reverse_idx that reverses over 7 bits: rev[6 - i] = idx[i].
bit_reverse_idx_short(idx) == RevLoop(idx, 0, LOG2_FFT_SIZE - 2)

\* rev[LOG2_FFT_SIZE - 1 - i] = idx[i] for i = 0 .. LOG2_FFT_SIZE-1
bit_reverse_idx(idx) == RevLoop(idx, 0, LOG2_FFT_SIZE - 1)

half_of(stage) == 2^stage

tw_stride_of(stage) == FFT_SIZE \div (2^(stage + 1))

\* j = k & (half - 1)
j_of(stage, k) == k % half_of(stage)

\* A group start that shifts back by stage instead of stage + 1.
group_of_noshift(stage, k) == (k \div (2^stage)) * (2^stage)

\* group = (k >> stage) << (stage + 1)
group_of(stage, k) == (k \div (2^stage)) * (2^(stage + 1))

idx_top_of(stage, k) == group_of(stage, k) + j_of(stage, k)

\* An idx_bot that forgets the half offset's group: group + half.
idx_bot_nogroup(stage, k) == j_of(stage, k) + half_of(stage)

idx_bot_of(stage, k) == group_of(stage, k) + j_of(stage, k) + half_of(stage)

\* A twiddle index that leaves out the stride: tw_idx = j.
tw_idx_nostride(stage, k) == j_of(stage, k)

\* tw_idx = j * tw_stride
tw_idx_of(stage, k) == j_of(stage, k) * tw_stride_of(stage)

-----------------------------------------------------------------------------
(* fft_tb.cpp: stimulus.  A frame is described by its samples and by where *)
(* the host puts TLAST.                                                    *)

\* (fixed_t)(sin(2*pi*10*n/256) + sin(2*pi*30*n/256)) for n = 0 .. 255: the raw
\* pattern floor(x * 2^16) of each sample (AP_TRN).  Sample n of the source
\* is element n+1 of the tuple.
DualTone ==
    << 0, 59935, 96113, 96650, 67276, 28012, 2506, 5582,
       35467, 74717, 99373, 91592, 49195, -12832, -69685, -99150,
       -92682, -59428, -21139, -631, -9786, -43320, -81554, -100745,
       -85627, -37637, 25447, 78290, 100686, 87598, 51373, 15012,
       0, 15012, 51373, 87598, 100686, 78290, 25447, -37637,
       -85627, -100745, -81554, -43320, -9786, -631, -21139, -59428,
       -92682, -99150, -69685, -12832, 49195, 91592, 99373, 74717,
       35467, 5582, 2506, 28012, 67276, 96650, 96113, 59935,
       0, -59936, -96114, -96651, -67277, -28013, -2507, -5583,
       -35468, -74718, -99374, -91593, -49196, 12831, 69684, 99149,
       92681, 59427, 21138, 630, 9785, 43319, 81553, 100744,
       85626, 37636, -25448, -78291, -100687, -87599, -51374, -15013,
       0, -15013, -51374, -87599, -100687, -78291, -25448, 37636,
       85626, 100744, 81553, 43319, 9785, 630, 21138, 59427,
       92681, 99149, 69684, 12831, -49196, -91593, -99374, -74718,
       -35468, -5583, -2507, -28013, -67277, -96651, -96114, -59936,
       -1, 59935, 96113, 96650, 67276, 28012, 2506, 5582,
       35467, 74717, 99373, 91592, 49195, -12832, -69685, -99150,
       -92682, -59428, -21139, -631, -9786, -43320, -81554, -100745,
       -85627, -37637, 25447, 78290, 100686, 87598, 51373, 15012,
       0, 15012, 51373, 87598, 100686, 78290, 25447, -37637,
       -85627, -100745, -81554, -43320, -9786, -631, -21139, -59428,
       -92682, -99150, -69685, -12832, 49195, 91592, 99373, 74717,
       35467, 5582, 2506, 28012, 67276, 96650, 96113, 59935,
       0, -59936, -96114, -96651, -67277, -28013, -2507, -5583,
       -35468, -74718, -99374, -91593, -49196, 12831, 69684, 99149,
       92681, 59427, 21138, 630, 9785, 43319, 81553, 100744,
       85626, 37636, -25448, -78291, -100687, -87599, -51374, -15013,
       0, -15013, -51374, -87599, -100687, -78291, -25448, 37636,
       85626, 100744, 81553, 43319, 9785, 630, 21138, 59427,
       92681, 99149, 69684, 12831, -49196, -91593, -99374, -74718,
       -35468, -5583, -2507, -28013, -67277, -96651, -96114, -59936 >>

\* Constant-valued frames: every word carries (re, im).
ConstList ==
    << <<0, 0>>, <<65536, 0>>, <<-1, 7>>, <<16777216, 65536>>,
       <<2147483647, -2147483647 - 1>>, <<8388609, -54321>>, <<12345, 8388608>> >>

ConstKinds == { [kind |-> "const", re |-> ConstList[n][1], im |-> ConstList[n][2]] :
                  n \in 1 .. NumConsts }

ImpulseKind == [kind |-> "impulse", re |-> FixFromInt(1), im |-> 0]

DualKind == [kind |-> "dual", re |-> 0, im |-> 0]

\* Sample n (0-based) of a frame of the given kind, as a pair of fixed_t.
Sample(d, n) ==
    CASE d.kind = "const"   -> [re |-> d.re, im |-> d.im]
      [] d.kind = "impulse" -> [re |-> IF n = 0 THEN d.re ELSE 0, im |-> 0]
      [] d.kind = "dual"    -> [re |-> DualTone[n + 1], im |-> 0]

\* sample.last as the host sets it: on word 255 ("ok"), on word 128 and on
\* word 255 ("early"), or on no word ("missing").
HostLast(framing, n) ==
    CASE framing = "ok"      -> n = FFT_SIZE - 1
      [] framing = "early"   -> n = FFT_SIZE \div 2 \/ n = FFT_SIZE - 1
      [] framing = "missing" -> FALSE

\* The 256 transport words of one frame (fft_tb.cpp, stimulus loop).
Stimulus(f) ==
    [ n \in 1 .. FFT_SIZE |->
        [ data |-> pack_data(Sample(f.data, n - 1).re, Sample(f.data, n - 1).im),
          keep |-> 255, strb |-> 255,
          last |-> HostLast(f.framing, n - 1) ] ]

WellFramed(f) == f.framing = "ok"

\* Frames offered to a sequence of invocations.
StreamMenu ==
    { [data |-> DualKind, framing |-> "ok"],
      [data |-> ImpulseKind, framing |-> "early"],
      [data |-> [kind |-> "const", re |-> ConstList[3][1], im |-> ConstList[3][2]],
       framing |-> "missing"] }

\* Frames offered to a single transform.
FrameMenu ==
    { [data |-> d, framing |-> "ok"] : d \in ConstKinds \cup {ImpulseKind, DualKind} }

-----------------------------------------------------------------------------
(* fft.cpp: one iteration of each loop, as a function of the buffers       *)

Index == 0 .. FFT_SIZE - 1

\* Contents of a local array before its first write.
Fresh == [n \in Index |-> 0]

READ_LOOP_short(i) == i < FFT_SIZE - 1

READ_LOOP_cond(i) == i < FFT_SIZE

BIT_REV_LOOP_cond(i) == i < FFT_SIZE

COPY_IN_cond(i) == i < FFT_SIZE

STAGE_LOOP_cond(stage) == stage < LOG2_FFT_SIZE

BUTTERFLY_LOOP_short(k) == k < FFT_SIZE \div 2 - 1

BUTTERFLY_LOOP_cond(k) == k < FFT_SIZE \div 2

COPY_OUT_cond(i) == i < FFT_SIZE

WRITE_LOOP_cond(i) == i < FFT_SIZE

\* bit_reverse, iteration i: out[rev] = in[i] for both arrays.
bit_reverse_step(b, i) ==
    LET rev == bit_reverse_idx(i)
    IN  [ in_re |-> b.in_re, in_im |-> b.in_im,
          out_re |-> [b.out_re EXCEPT ![rev] = b.in_re[i]],
          out_im |-> [b.out_im EXCEPT ![rev] = b.in_im[i]] ]

\* A butterfly whose lower output adds instead of subtracting.
bf_bot_add(a, t) == FixAdd(a, t)

\* wr[idx_bot] = ar - tr
bf_bot(a, t) == FixSub(a, t)

\* wr[idx_top] = ar + tr
bf_top(a, t) == FixAdd(a, t)

\* fft_stages, BUTTERFLY_LOOP body for (stage, k) on the working buffers.
butterfly(w, stage, k) ==
    LET idx_top == idx_top_of(stage, k)
        idx_bot == idx_bot_of(stage, k)
        tw_idx  == tw_idx_of(stage, k)
        tw_r == TW_REAL[tw_idx + 1]
        tw_i == TW_IMAG[tw_idx + 1]
        ar == w.re[idx_top]
        ai == w.im[idx_top]
        br == w.re[idx_bot]
        bi == w.im[idx_bot]
        tr == FixSub(FixMul(br, tw_r), FixMul(bi, tw_i))
        ti == FixAdd(FixMul(br, tw_i), FixMul(bi, tw_r))
    IN  [ re |-> [w.re EXCEPT ![idx_top] = bf_top(ar, tr), ![idx_bot] = bf_bot(ar, tr)],
          im |-> [w.im EXCEPT ![idx_top] = bf_top(ai, ti), ![idx_bot] = bf_bot(ai, ti)] ]

\* A writer that raises TLAST on the first word.
write_last_first(i) == i = 0

\* val.last = (i == FFT_SIZE - 1) ? 1 : 0
write_last(i) == i = FFT_SIZE - 1

\* write_output, the word built at iteration i.
write_word(real_buf, imag_buf, i) ==
    [ data |-> pack_data(real_buf[i], imag_buf[i]),
      keep |-> 255, strb |-> 255,
      last |-> write_last(i) ]

-----------------------------------------------------------------------------
(* State                                                                   *)

VARIABLES
    in_stream,   \* hls::stream<axis_t> in_stream: words queued, oldest first
    out_stream,  \* hls::stream<axis_t> out_stream: words written and not yet read
    in_real, in_imag,    \* fft locals filled by read_input
    rev_real, rev_imag,  \* fft locals filled by bit_reverse
    wr, wi,              \* fft_stages working buffers
    out_real, out_imag,  \* fft locals filled by fft_stages
    pc,          \* "idle", or the label of the loop the invocation is in
    i,           \* counter of READ_LOOP, BIT_REV_LOOP, COPY_IN, COPY_OUT, WRITE_LOOP
    stage, k,    \* counters of STAGE_LOOP and BUTTERFLY_LOOP
    sent,        \* the frames the host has queued, in order
    calls,       \* number of fft invocations that have returned
    menu,        \* the frames the host may queue
    budget,      \* the number of frames the host queues at most
    codec,       \* a pack_data / unpack_data round trip on its own
    received     \* the words the testbench has read from out_stream

vars == << in_stream, out_stream, in_real, in_imag, rev_real, rev_imag, wr, wi,
           out_real, out_imag, pc, i, stage, k, sent, calls, menu, budget, codec,
           received >>

buffers == << in_real, in_imag, rev_real, rev_imag, wr, wi, out_real, out_imag >>

CodecIdle ==
    [ pc |-> "off", first |-> "none", real_val |-> 0, imag_val |-> 0,
      packed |-> <<0, 0, 0, 0>>, r0 |-> 0, i0 |-> 0, w0 |-> <<0, 0, 0, 0>> ]

EngineInit ==
    /\ in_stream = << >>
    /\ out_stream = << >>
    /\ in_real = Fresh /\ in_imag = Fresh
    /\ rev_real = Fresh /\ rev_imag = Fresh
    /\ wr = Fresh /\ wi = Fresh
    /\ out_real = Fresh /\ out_imag = Fresh
    /\ pc = "idle"
    /\ i = 0 /\ stage = 0 /\ k = 0
    /\ sent = << >>
    /\ calls = 0
    /\ received = << >>

\* A host that queues up to MaxFrames frames, well framed or not.
Init ==
    /\ EngineInit
    /\ menu = StreamMenu
    /\ budget = MaxFrames
    /\ codec = CodecIdle

\* A host that queues one well-framed frame out of a wider choice of samples.
InitFrame ==
    /\ EngineInit
    /\ menu = FrameMenu
    /\ budget = 1
    /\ codec = CodecIdle

-----------------------------------------------------------------------------
(* Host: fft_tb.cpp                                                        *)

\* The stimulus loop: 256 words of one frame written to in_stream.
Enqueue ==
    /\ pc = "idle"
    /\ Len(sent) < budget
    /\ \E f \in menu :
          /\ in_stream' = in_stream \o Stimulus(f)
          /\ sent' = Append(sent, f)
    /\ UNCHANGED << out_stream, buffers, pc, i, stage, k, calls, menu, budget, codec, received >>

\* fft(in_stream, out_stream) is called once a frame is queued.
Call ==
    /\ pc = "idle"
    /\ in_stream # << >>
    /\ pc' = "READ_LOOP"
    /\ i' = 0
    /\ UNCHANGED << in_stream, out_stream, buffers, stage, k, sent, calls, menu,
                    budget, codec, received >>

-----------------------------------------------------------------------------
(* fft.cpp: one action per loop iteration                                  *)

\* The loop increment and test: stay in the loop, or enter the next one.
Advance(more, next) ==
    IF more THEN i' = i + 1 /\ pc' = pc
            ELSE i' = 0 /\ pc' = next

\* read_input, READ_LOOP: blocks while in_stream is empty.
ReadStep ==
    /\ pc = "READ_LOOP"
    /\ in_stream # << >>
    /\ LET val == Head(in_stream)
           u   == unpack_data(val.data)
       IN  /\ in_real' = [in_real EXCEPT ![i] = u.real_val]
           /\ in_imag' = [in_imag EXCEPT ![i] = u.imag_val]
    /\ in_stream' = Tail(in_stream)
    /\ Advance(READ_LOOP_cond(i + 1), "BIT_REV_LOOP")
    /\ UNCHANGED << out_stream, rev_real, rev_imag, wr, wi, out_real, out_imag,
                    stage, k, sent, calls, menu, budget, codec, received >>

\* bit_reverse, BIT_REV_LOOP.
BitRevStep ==
    /\ pc = "BIT_REV_LOOP"
    /\ LET b == bit_reverse_step([in_re |-> in_real, in_im |-> in_imag,
                                  out_re |-> rev_real, out_im |-> rev_imag], i)
       IN  /\ rev_real' = b.out_re
           /\ rev_imag' = b.out_im
    /\ Advance(BIT_REV_LOOP_cond(i + 1), "COPY_IN")
    /\ UNCHANGED << in_stream, out_stream, in_real, in_imag, wr, wi, out_real,
                    out_imag, stage, k, sent, calls, menu, budget, codec, received >>

\* fft_stages, COPY_IN; on exit STAGE_LOOP and BUTTERFLY_LOOP start at 0.
CopyInStep ==
    /\ pc = "COPY_IN"
    /\ wr' = [wr EXCEPT ![i] = rev_real[i]]
    /\ wi' = [wi EXCEPT ![i] = rev_imag[i]]
    /\ Advance(COPY_IN_cond(i + 1), "BUTTERFLY_LOOP")
    /\ stage' = 0
    /\ k' = 0
    /\ UNCHANGED << in_stream, out_stream, in_real, in_imag, rev_real, rev_imag,
                    out_real, out_imag, sent, calls, menu, budget, codec, received >>

\* fft_stages, one butterfly of BUTTERFLY_LOOP inside STAGE_LOOP.
ButterflyStep ==
    /\ pc = "BUTTERFLY_LOOP"
    /\ LET w == butterfly([re |-> wr, im |-> wi], stage, k)
       IN  /\ wr' = w.re
           /\ wi' = w.im
    /\ IF BUTTERFLY_LOOP_cond(k + 1)
          THEN k' = k + 1 /\ stage' = stage /\ pc' = pc
          ELSE IF STAGE_LOOP_cond(stage + 1)
                  THEN k' = 0 /\ stage' = stage + 1 /\ pc' = pc
                  ELSE k' = 0 /\ stage' = 0 /\ pc' = "COPY_OUT"
    /\ i' = 0
    /\ UNCHANGED << in_stream, out_stream, in_real, in_imag, rev_real, rev_imag,
                    out_real, out_imag, sent, calls, menu, budget, codec, received >>

\* fft_stages, COPY_OUT.
CopyOutStep ==
    /\ pc = "COPY_OUT"
    /\ out_real' = [out_real EXCEPT ![i] = wr[i]]
    /\ out_imag' = [out_imag EXCEPT ![i] = wi[i]]
    /\ Advance(COPY_OUT_cond(i + 1), "WRITE_LOOP")
    /\ UNCHANGED << in_stream, out_stream, in_real, in_imag, rev_real, rev_imag,
                    wr, wi, stage, k, sent, calls, menu, budget, codec, received >>

\* write_output, WRITE_LOOP; after the last word fft returns.
WriteStep ==
    /\ pc = "WRITE_LOOP"
    /\ out_stream' = Append(out_stream, write_word(out_real, out_imag, i))
    /\ Advance(WRITE_LOOP_cond(i + 1), "idle")
    /\ calls' = IF WRITE_LOOP_cond(i + 1) THEN calls ELSE calls + 1
    /\ UNCHANGED << in_stream, buffers, stage, k, sent, menu, budget, codec, received >>

Next ==
    \/ Enqueue
    \/ Call
    \/ ReadStep
    \/ BitRevStep
    \/ CopyInStep
    \/ ButterflyStep
    \/ CopyOutStep
    \/ WriteStep

Spec == Init /\ [][Next]_vars

\* fft_tb.cpp, the loop that takes the 256 result words out of out_stream
\* after fft has returned.
ReadResult ==
    /\ pc = "idle"
    /\ calls > 0
    /\ Len(out_stream) >= FFT_SIZE
    /\ received' = received \o SubSeq(out_stream, 1, FFT_SIZE)
    /\ out_stream' = SubSeq(out_stream, FFT_SIZE + 1, Len(out_stream))
    /\ UNCHANGED << in_stream, buffers, pc, i, stage, k, sent, calls, menu, budget,
                    codec >>

\* The testbench: one frame queued, one call of fft, the result read out.
NextFrame ==
    \/ Next
    \/ ReadResult

SpecFrame == InitFrame /\ [][NextFrame]_vars

-----------------------------------------------------------------------------
(* The four steps as functions of a whole frame: each loop of fft.cpp run  *)
(* from its first iteration to its last on buffers that start Fresh.  The  *)
(* iterations lo .. hi-1 of a loop are applied in increasing order; the    *)
(* range is split in two, and the first half evaluated before the second   *)
(* is entered, only to keep the evaluation shallow.                        *)

\* read_input, iteration n: unpack word n of the frame into the buffers.
read_step(words, b, n) ==
    LET u == unpack_data(words[n + 1].data)
    IN  [re |-> [b.re EXCEPT ![n] = u.real_val],
         im |-> [b.im EXCEPT ![n] = u.imag_val]]

RECURSIVE read_input(_, _, _, _)
read_input(words, b, lo, hi) ==
    IF hi <= lo THEN b
    ELSE IF hi = lo + 1 THEN read_step(words, b, lo)
    ELSE LET mid == (lo + hi) \div 2
             first == read_input(words, b, lo, mid)
         IN  IF first = first THEN read_input(words, first, mid, hi) ELSE b

RECURSIVE bit_reverse(_, _, _)
bit_reverse(b, lo, hi) ==
    IF hi <= lo THEN b
    ELSE IF hi = lo + 1 THEN bit_reverse_step(b, lo)
    ELSE LET mid == (lo + hi) \div 2
             first == bit_reverse(b, lo, mid)
         IN  IF first = first THEN bit_reverse(first, mid, hi) ELSE b

RECURSIVE BUTTERFLY_LOOP(_, _, _, _)
BUTTERFLY_LOOP(w, s, lo, hi) ==
    IF hi <= lo THEN w
    ELSE IF hi = lo + 1 THEN butterfly(w, s, lo)
    ELSE LET mid == (lo + hi) \div 2
             first == BUTTERFLY_LOOP(w, s, lo, mid)
         IN  IF first = first THEN BUTTERFLY_LOOP(first, s, mid, hi) ELSE w

RECURSIVE STAGE_LOOP(_, _)
STAGE_LOOP(w, s) ==
    IF ~STAGE_LOOP_cond(s) THEN w
    ELSE LET first == BUTTERFLY_LOOP(w, s, 0, FFT_SIZE \div 2)
         IN  IF first = first THEN STAGE_LOOP(first, s + 1) ELSE w

\* fft_stages: COPY_IN and COPY_OUT copy every element, so the result is the
\* working buffer after the eight stages.
fft_stages(b) == STAGE_LOOP(b, 0)

\* write_output: the 256 words of the output frame.
write_output(b) == [n \in 1 .. FFT_SIZE |-> write_word(b.re, b.im, n - 1)]

\* fft on one frame of 256 transport words.
fft(words) ==
    LET rd  == read_input(words, [re |-> Fresh, im |-> Fresh], 0, FFT_SIZE)
        rev == bit_reverse([in_re |-> rd.re, in_im |-> rd.im,
                            out_re |-> Fresh, out_im |-> Fresh], 0, FFT_SIZE)
    IN  write_output(fft_stages([re |-> rev.out_re, im |-> rev.out_im]))

-----------------------------------------------------------------------------
(* pack_data and unpack_data on their own: a value pair is packed and then *)
(* unpacked, or a word is unpacked and then packed.                        *)

PatternList ==
    << 0, 1, -1, 65536, 2147483647, -2147483647 - 1, 305419896, -19088744 >>

Patterns == { PatternList[n] : n \in 1 .. NumPatterns }

Limbs == { Hi(p) % Half : p \in Patterns } \cup { Lo(p) : p \in Patterns }

InitPack ==
    /\ EngineInit
    /\ menu = {}
    /\ budget = 0
    /\ \/ \E r \in Patterns, m \in Patterns :
             codec = [ pc |-> "pack", first |-> "pack", real_val |-> r, imag_val |-> m,
                       packed |-> <<0, 0, 0, 0>>, r0 |-> r, i0 |-> m,
                       w0 |-> <<0, 0, 0, 0>> ]
       \/ \E a \in Limbs, b \in Limbs, c \in Limbs, d \in Limbs :
             codec = [ pc |-> "unpack", first |-> "unpack", real_val |-> 0,
                       imag_val |-> 0, packed |-> <<a, b, c, d>>, r0 |-> 0, i0 |-> 0,
                       w0 |-> <<a, b, c, d>> ]

PackCall ==
    /\ codec.pc = "pack"
    /\ codec' = [codec EXCEPT !.packed = pack_data(codec.real_val, codec.imag_val),
                              !.pc = IF codec.first = "pack" THEN "unpack" ELSE "done"]
    /\ UNCHANGED << in_stream, out_stream, buffers, pc, i, stage, k, sent, calls,
                    menu, budget, received >>

UnpackCall ==
    /\ codec.pc = "unpack"
    /\ LET u == unpack_data(codec.packed)
       IN  codec' = [codec EXCEPT !.real_val = u.real_val, !.imag_val = u.imag_val,
                                  !.pc = IF codec.first = "unpack" THEN "pack"
                                                                  ELSE "done"]
    /\ UNCHANGED << in_stream, out_stream, buffers, pc, i, stage, k, sent, calls,
                    menu, budget, received >>

NextPack ==
    \/ PackCall
    \/ UnpackCall

SpecPack == InitPack /\ [][NextPack]_vars

-----------------------------------------------------------------------------
(* fft_tb.cpp: the read-out of the result and the checks of the testbench. *)
(* The testbench works in float (IEEE 754 binary32, round to nearest, ties *)
(* to even).  A float is modelled by its sign, its 24-bit significand m    *)
(* (2^23 <= m < 2^24, or 0 for zero) and the exponent e of its last bit:   *)
(* the value is m * 2^e.  No value of the testbench is subnormal, infinite *)
(* or NaN: raw patterns are multiples of 2^-16 below 2^15 in magnitude.    *)
(* Exact intermediate results beyond 32 bits are little-endian sequences   *)
(* of 14-bit limbs, or of bits.                                            *)

Base == 2^14

RECURSIVE Carry(_, _)
\* Propagates carries through column sums s, with carry c coming in.
Carry(s, c) ==
    IF s = << >>
       THEN IF c = 0 THEN << >> ELSE << c % Base >> \o Carry(<< >>, c \div Base)
       ELSE << (s[1] + c) % Base >> \o Carry(Tail(s), (s[1] + c) \div Base)

\* A natural number below 2^31 as three limbs.
Limbs3(a) == << a % Base, (a \div Base) % Base, a \div (Base * Base) >>

\* |x| of a 32-bit pattern as three limbs.
AbsLimbs(x) ==
    IF x = -2147483647 - 1 THEN << 0, 0, 8 >>
    ELSE Limbs3(IF x < 0 THEN -x ELSE x)

\* The exact product of two three-limb numbers.
BigMul(a, b) ==
    Carry(<< a[1] * b[1],
             a[1] * b[2] + a[2] * b[1],
             a[1] * b[3] + a[2] * b[2] + a[3] * b[1],
             a[2] * b[3] + a[3] * b[2],
             a[3] * b[3] >>, 0)

Digit(s, n) == IF n <= Len(s) THEN s[n] ELSE 0

BigAdd(a, b) ==
    Carry([n \in 1 .. (IF Len(a) > Len(b) THEN Len(a) ELSE Len(b)) |->
              Digit(a, n) + Digit(b, n)], 0)

\* a * c for a factor c of at most 2^14.
BigScale(a, c) == Carry([n \in 1 .. Len(a) |-> a[n] * c], 0)

\* a * 2^d for 0 <= d <= 28.
BigShl(a, d) ==
    IF d <= 14 THEN BigScale(a, 2^d) ELSE BigScale(BigScale(a, Base), 2^(d - 14))

BigLess(a, b) ==
    \E n \in 1 .. (IF Len(a) > Len(b) THEN Len(a) ELSE Len(b)) :
        /\ Digit(a, n) < Digit(b, n)
        /\ \A m \in (n + 1) .. (IF Len(a) > Len(b) THEN Len(a) ELSE Len(b)) :
              Digit(a, m) = Digit(b, m)

\* The bits of a limb sequence, least significant first.
BitsOf(a) == [n \in 1 .. 14 * Len(a) |-> Bit(a[((n - 1) \div 14) + 1], (n - 1) % 14)]

\* Position (1-based) of the highest bit set, 0 if none.
TopBit(bits) ==
    IF \A n \in 1 .. Len(bits) : bits[n] = 0 THEN 0
    ELSE CHOOSE n \in 1 .. Len(bits) :
            bits[n] = 1 /\ \A m \in (n + 1) .. Len(bits) : bits[m] = 0

RECURSIVE Field(_, _, _)
\* The number held by bits lo .. hi (at most 24 of them), bit lo its unit.
Field(bits, lo, hi) ==
    IF hi < lo THEN 0 ELSE bits[lo] + 2 * Field(bits, lo + 1, hi)

FloatZero == [neg |-> FALSE, m |-> 0, e |-> 0]

\* The float nearest to N * 2^e, N given by its bits; sticky says that the
\* exact value lies strictly between N * 2^e and (N + 1) * 2^e.  Ties go to
\* the even significand.
RoundToFloat(neg, bits, e, sticky) ==
    LET top == TopBit(bits)
        sh  == top - 24
        q   == Field(bits, sh + 1, top)
        low == sticky \/ \E n \in 1 .. (sh - 1) : bits[n] = 1
        up  == bits[sh] = 1 /\ (low \/ q % 2 = 1)
    IN  IF top = 0 THEN FloatZero
        ELSE IF top <= 24
                THEN [neg |-> neg, m |-> Field(bits, 1, top) * 2^(24 - top),
                      e |-> e - (24 - top)]
        ELSE IF up /\ q + 1 = 2^24
                THEN [neg |-> neg, m |-> 2^23, e |-> e + sh + 1]
        ELSE [neg |-> neg, m |-> IF up THEN q + 1 ELSE q, e |-> e + sh]

\* (float)r for a fixed_t r: the pattern times 2^-16, rounded to 24 bits.
to_float(x) == RoundToFloat(x < 0, BitsOf(AbsLimbs(x)), -16, FALSE)

\* float operator*.
fmul(a, b) ==
    IF a.m = 0 \/ b.m = 0 THEN FloatZero
    ELSE RoundToFloat(a.neg # b.neg, BitsOf(BigMul(Limbs3(a.m), Limbs3(b.m))),
                      a.e + b.e, FALSE)

\* float operator+ on operands that are not negative (two squares).  An
\* operand more than 25 binary places below the other cannot change it.
fadd(a, b) ==
    LET hi == IF a.e >= b.e THEN a ELSE b
        lo == IF a.e >= b.e THEN b ELSE a
        d  == hi.e - lo.e
    IN  IF a.m = 0 THEN b
        ELSE IF b.m = 0 THEN a
        ELSE IF d > 25 THEN hi
        ELSE RoundToFloat(FALSE, BitsOf(BigAdd(BigShl(Limbs3(hi.m), d), Limbs3(lo.m))),
                          lo.e, FALSE)

RECURSIVE SqrtBits(_, _, _)
\* The largest s + t with t < 2^(b+1) and (s + t)^2 <= N, N a limb sequence.
SqrtBits(N, s, b) ==
    IF b < 0 THEN s
    ELSE LET c  == s + 2^b
             cc == BigMul(Limbs3(c), Limbs3(c))
             nx == IF BigLess(N, cc) THEN s ELSE c
         IN  IF nx = nx THEN SqrtBits(N, nx, b - 1) ELSE s

\* sqrtf of a float that is not negative: correctly rounded.  The significand
\* is scaled to m * 2^26 (m * 2^27 for an odd exponent) so that the integer
\* root has 25 or 26 bits.
fsqrt(a) ==
    LET odd == a.e % 2 = 1
        N   == BigShl(Limbs3(a.m), IF odd THEN 27 ELSE 26)
        s   == SqrtBits(N, 0, 25)
        ss  == BigMul(Limbs3(s), Limbs3(s))
    IN  IF a.m = 0 THEN FloatZero
        ELSE RoundToFloat(FALSE, BitsOf(Limbs3(s)),
                          ((IF odd THEN a.e - 1 ELSE a.e) \div 2) - 13, BigLess(ss, N))

\* a > b for floats that are not negative.
fgt(a, b) ==
    /\ a.m # 0
    /\ \/ b.m = 0
       \/ a.e > b.e
       \/ a.e = b.e /\ a.m > b.m

\* 0.3f = 10066330 * 2^-25
ThreeTenths == [neg |-> FALSE, m |-> 10066330, e |-> -25]

\* magnitude[i] = sqrtf(real_out[i] * real_out[i] + imag_out[i] * imag_out[i])
\* for each word the testbench has read.
magnitude(frame) ==
    [ n \in Index |->
        LET u  == unpack_data(frame[n + 1].data)
            re == to_float(u.real_val)
            im == to_float(u.imag_val)
        IN  fsqrt(fadd(fmul(re, re), fmul(im, im))) ]

\* max_mag: starts at 0.0f and is replaced by every larger magnitude.
max_mag(mag) ==
    CHOOSE x \in { mag[n] : n \in Index } \cup { FloatZero } :
        \A n \in Index : ~fgt(mag[n], x)

\* threshold = max_mag * 0.3f
threshold(mag) == fmul(max_mag(mag), ThreeTenths)

\* magnitude[n] > threshold
above_threshold(mag, n) == fgt(mag[n], threshold(mag))

TONE1 == 10

TONE2 == 30

-----------------------------------------------------------------------------
(* Properties                                                              *)

\* Output frame n (1-based) of out_stream.
OutFrame(n) == SubSeq(out_stream, FFT_SIZE * (n - 1) + 1, FFT_SIZE * n)

\* Every word written to out_stream so far: those the testbench has read,
\* then those still on the stream.
AllOut == received \o out_stream

\* Words read from in_stream so far.
Consumed == FFT_SIZE * Len(sent) - Len(in_stream)

\* C1: an invocation whose input frame has TLAST before word 255, or no TLAST
\* on word 255, fails with a framing error: it never returns normally.  So
\* every invocation that has returned was given a well-framed frame.
C1_FramingErrorRaised == \A n \in 1 .. calls : WellFramed(sent[n])

\* C2: an invocation on an ill-framed frame writes nothing to out_stream: when
\* the engine is idle, out_stream holds one frame for each well-framed input
\* frame processed and no word for the others.
C2_NoOutputOnFramingError ==
    pc = "idle" =>
        Len(out_stream) =
            FFT_SIZE * Cardinality({ n \in 1 .. calls : WellFramed(sent[n]) })

\* C3: in every output frame the word at index 255 has last = TRUE and the
\* words at indices 0 .. 254 have last = FALSE.
C3_LastOnWord255 ==
    \A n \in 1 .. Len(out_stream) :
        out_stream[n].last = ((n - 1) % FFT_SIZE = FFT_SIZE - 1)

C3_Witness ==
    /\ calls = 1
    /\ Len(out_stream) = FFT_SIZE
    /\ out_stream[FFT_SIZE].last
    /\ ~WellFramed(sent[1])

PhaseOrder ==
    { <<"idle", "READ_LOOP">>, <<"READ_LOOP", "BIT_REV_LOOP">>,
      <<"BIT_REV_LOOP", "COPY_IN">>, <<"COPY_IN", "BUTTERFLY_LOOP">>,
      <<"BUTTERFLY_LOOP", "COPY_OUT">>, <<"COPY_OUT", "WRITE_LOOP">>,
      <<"WRITE_LOOP", "idle">> }

\* No output word of the current invocation exists before its 256 input words
\* have been read.
C4_NoEarlyOutput ==
    Len(out_stream) > FFT_SIZE * calls => Consumed >= FFT_SIZE * (calls + 1)

\* A step leaves a loop only after the loop's last iteration and enters the
\* next loop of the chain; a stage is left only by its 128th butterfly; words
\* are read only by the reader and written only by the writer.
C4_Step ==
    /\ pc' # pc =>
          /\ <<pc, pc'>> \in PhaseOrder
          /\ pc \in {"READ_LOOP", "BIT_REV_LOOP", "COPY_IN", "COPY_OUT", "WRITE_LOOP"}
                => i = FFT_SIZE - 1
          /\ pc = "BUTTERFLY_LOOP"
                => stage = LOG2_FFT_SIZE - 1 /\ k = FFT_SIZE \div 2 - 1
    /\ (pc = "BUTTERFLY_LOOP" /\ pc' = pc) =>
          \/ stage' = stage /\ k' = k + 1
          \/ stage' = stage + 1 /\ k' = 0 /\ k = FFT_SIZE \div 2 - 1
    /\ Len(in_stream') < Len(in_stream) => pc = "READ_LOOP"
    /\ out_stream' # out_stream => pc = "WRITE_LOOP"

\* C4: within an invocation no output word is written before the 256th input
\* word has been read, and reader, permuter, butterfly core (stage by stage,
\* all 128 butterflies of a stage before the next stage) and writer run to
\* completion in that order.
C4_StrictOrder == [] C4_NoEarlyOutput /\ [][C4_Step]_vars

C4_Witness ==
    /\ pc = "WRITE_LOOP"
    /\ i = 1
    /\ Len(out_stream) = FFT_SIZE * calls + 1
    /\ Consumed = FFT_SIZE * (calls + 1)

\* C5: when the engine is idle after m invocations it has consumed exactly
\* 256 m words and written exactly 256 m words, and output frame n is the
\* transform of input frame n alone, for each n.
C5_FrameByFrame ==
    pc = "idle" =>
        /\ Consumed = FFT_SIZE * calls
        /\ Len(out_stream) = FFT_SIZE * calls
        /\ \A n \in 1 .. calls :
              LET want == fft(Stimulus(sent[n]))
              IN  \A m \in 1 .. FFT_SIZE : OutFrame(n)[m] = want[m]

C5_Witness ==
    /\ pc = "idle"
    /\ calls = 2
    /\ sent[1] # sent[2]
    /\ OutFrame(1) # OutFrame(2)
    /\ in_stream = << >>

\* 256 * c reduced to 32 bits.
Times256(c) == MkFixed(Hi(c) * FFT_SIZE + Lo(c) \div 256, (Lo(c) % 256) * 256)

\* C6: for a constant input frame x[n] = c the output has X[0] = 256 c wrapped
\* to 32 bits, and X[k] = 0 exactly for k = 1 .. 255.
C6_ConstantFrame ==
    (pc = "idle" /\ calls = 1 /\ sent[1].data.kind = "const") =>
        \A n \in 1 .. FFT_SIZE :
            LET u == unpack_data(AllOut[n].data)
            IN  IF n = 1
                   THEN /\ u.real_val = Times256(sent[1].data.re)
                        /\ u.imag_val = Times256(sent[1].data.im)
                   ELSE u.real_val = 0 /\ u.imag_val = 0

C6_Witness ==
    /\ pc = "idle"
    /\ calls = 1
    /\ sent[1].data.kind = "const"
    /\ sent[1].data.re = 8388609
    /\ unpack_data(AllOut[1].data).real_val = -2147483647 - 1 + 256

\* C7: for the impulse frame every output bin is (1.0, 0): real pattern
\* 0x00010000, imaginary pattern 0.
C7_ImpulseFrame ==
    (pc = "idle" /\ calls = 1 /\ sent[1].data.kind = "impulse") =>
        \A n \in 1 .. FFT_SIZE :
            unpack_data(AllOut[n].data) = [real_val |-> 65536, imag_val |-> 0]

C7_Witness ==
    /\ pc = "idle"
    /\ calls = 1
    /\ sent[1].data.kind = "impulse"
    /\ AllOut[FFT_SIZE].data = <<1, 0, 0, 0>>

\* C8: for the dual-tone frame, once the testbench has read the result, the
\* magnitudes at bins 10, 30, 226 and 246 exceed 30% of the maximum magnitude
\* (threshold = max_mag * 0.3f), and no other bin of 1 .. 127 does.
C8_DualTonePeaks ==
    (Len(received) = FFT_SIZE /\ sent[1].data.kind = "dual") =>
        LET mag == magnitude(received)
        IN  /\ mag = mag
            /\ \A n \in {TONE1, TONE2, FFT_SIZE - TONE1, FFT_SIZE - TONE2} :
                  above_threshold(mag, n)
            /\ \A n \in 1 .. FFT_SIZE \div 2 - 1 :
                  n \notin {TONE1, TONE2} => ~above_threshold(mag, n)

C8_Witness ==
    /\ Len(received) = FFT_SIZE
    /\ out_stream = << >>
    /\ sent[1].data.kind = "dual"
    /\ unpack_data(received[TONE1 + 1].data).imag_val < -(2^22)

\* Bit n of a 64-bit word, and bit n of the two's-complement pattern of x.
WordBit(w, n) == Bit(w[4 - (n \div 16)], n % 16)

PatternBit(x, n) == IF n = 31 THEN (IF x < 0 THEN 1 ELSE 0) ELSE Bit(x, n)

\* C9: pack_data puts the real pattern in bits [63:32] and the imaginary
\* pattern in bits [31:0]; unpack_data(pack_data(r, i)) = (r, i); and
\* pack_data(unpack_data(w)) = w.
C9_PackUnpackInverse ==
    /\ (codec.first = "pack" /\ codec.pc \in {"unpack", "done"}) =>
          \A b \in 0 .. 31 :
              /\ WordBit(codec.packed, 32 + b) = PatternBit(codec.r0, b)
              /\ WordBit(codec.packed, b) = PatternBit(codec.i0, b)
    /\ (codec.first = "pack" /\ codec.pc = "done") =>
          codec.real_val = codec.r0 /\ codec.imag_val = codec.i0
    /\ (codec.first = "unpack" /\ codec.pc = "done") => codec.packed = codec.w0

C9_Witness ==
    /\ codec.first = "pack"
    /\ codec.pc = "done"
    /\ codec.r0 = -2147483647 - 1
    /\ codec.i0 = 65536
    /\ codec.packed = <<32768, 0, 1, 0>>

\* The permutation of the specification: bit b of n becomes bit 7 - b.
bitrev8(n) ==
    CHOOSE r \in Index :
        \A b \in 0 .. LOG2_FFT_SIZE - 1 : Bit(r, LOG2_FFT_SIZE - 1 - b) = Bit(n, b)

\* C10: when bit_reverse has finished, out[bitrev8(n)] = in[n] for every n,
\* every output index was written by exactly one iteration, bitrev8 undoes
\* itself, and permuting the result again gives back the input buffers.
C10_BitReversal ==
    (pc = "COPY_IN" /\ i = 0) =>
        /\ \A n \in Index :
              /\ bit_reverse_idx(n) = bitrev8(n)
              /\ rev_real[bitrev8(n)] = in_real[n]
              /\ rev_imag[bitrev8(n)] = in_imag[n]
              /\ bit_reverse_idx(bit_reverse_idx(n)) = n
              /\ Cardinality({ m \in Index : bit_reverse_idx(m) = n }) = 1
        /\ LET twice == bit_reverse([in_re |-> rev_real, in_im |-> rev_imag,
                                     out_re |-> Fresh, out_im |-> Fresh], 0, FFT_SIZE)
           IN  twice.out_re = in_real /\ twice.out_im = in_imag

C10_Witness ==
    /\ pc = "COPY_IN"
    /\ i = 0
    /\ sent[1].data.kind = "dual"
    /\ rev_real[128] = in_real[1]
    /\ in_real[1] = 59935

RECURSIVE BUTTERFLY_LOOP_down(_, _, _, _)
\* The butterflies lo .. hi-1 of stage s applied in decreasing order of k.
BUTTERFLY_LOOP_down(w, s, lo, hi) ==
    IF hi <= lo THEN w
    ELSE IF hi = lo + 1 THEN butterfly(w, s, lo)
    ELSE LET mid == (lo + hi) \div 2
             first == BUTTERFLY_LOOP_down(w, s, mid, hi)
         IN  IF first = first THEN BUTTERFLY_LOOP_down(first, s, lo, mid) ELSE w

\* The two buffer indices butterfly n of stage s reads and writes.
PairOf(s, n) == { idx_top_of(s, n), idx_bot_of(s, n) }

\* C11: for the butterfly about to run, 0 <= idx_top < idx_bot <= 255 and
\* 0 <= tw_idx <= 127, and its index pair is disjoint from that of every
\* other butterfly of the stage; at the start of a stage the 128 pairs cover
\* 0 .. 255, any two butterflies of the stage commute with the first one, and
\* running the stage in decreasing order of k gives the same buffers as
\* running it in increasing order.
C11_ButterflyIndices ==
    pc = "BUTTERFLY_LOOP" =>
        /\ 0 <= idx_top_of(stage, k)
        /\ idx_top_of(stage, k) < idx_bot_of(stage, k)
        /\ idx_bot_of(stage, k) <= FFT_SIZE - 1
        /\ 0 <= tw_idx_of(stage, k)
        /\ tw_idx_of(stage, k) <= FFT_SIZE \div 2 - 1
        /\ \A n \in 0 .. FFT_SIZE \div 2 - 1 :
              n # k => PairOf(stage, n) \cap PairOf(stage, k) = {}
        /\ k = 0 =>
              LET w == [re |-> wr, im |-> wi]
              IN  /\ UNION { PairOf(stage, n) : n \in 0 .. FFT_SIZE \div 2 - 1 } = Index
                  /\ \A n \in 1 .. FFT_SIZE \div 2 - 1 :
                        butterfly(butterfly(w, stage, 0), stage, n)
                            = butterfly(butterfly(w, stage, n), stage, 0)
                  /\ BUTTERFLY_LOOP(w, stage, 0, FFT_SIZE \div 2)
                        = BUTTERFLY_LOOP_down(w, stage, 0, FFT_SIZE \div 2)

C11_Witness ==
    /\ pc = "BUTTERFLY_LOOP"
    /\ stage = LOG2_FFT_SIZE - 1
    /\ k = FFT_SIZE \div 2 - 1
    /\ idx_top_of(stage, k) = 127
    /\ idx_bot_of(stage, k) = 255
    /\ tw_idx_of(stage, k) = 127
    /\ sent[1].data.kind = "dual"

=============================================================================
